---- MODULE Spec2Model ----
(***************************************************************************)
(* Claimable-item workflow and evaluation orchestration of the search      *)
(* quality evaluation front ends: the React application (landing page,     *)
(* evaluation page, hooks) and the script that drives the classic page.    *)
(*                                                                         *)
(* Text kept in localStorage is represented by the value it denotes; an    *)
(* absent object key and a key holding undefined are both Undefined, which *)
(* is what a read of either returns and what JSON.stringify makes of both. *)
(***************************************************************************)
EXTENDS Integers, Sequences, FiniteSets, TLC

\* ------------------------------------------------------------------ bounds
MaxClock == 2      \* Date values handed out are Epoch..Epoch+MaxClock-1
MaxCalls == 2      \* requests a run sends to the oracle
MaxStored == 3     \* evaluations a store of the statistics runs holds at the start
StoredEntries == 2 \* entries each log of a store left by an earlier run holds

\* --------------------------------------------------------------- constants
Undefined == 0                 \* JavaScript undefined / absent key
Null == "null"                 \* no item, where items are named by title
HISTORY_LIMIT == 50            \* slice(0, 50) of both logs

\* The first Date value of a run; the entries a store holds when a run starts
\* were written before it.
Epoch == HISTORY_LIMIT

Nike == "Nike Air Zoom Pegasus 39"
Dress == "Floral Maxi Dress"
Watch == "Apple Watch Series 9"

\* An item of the sample set: no id key, no claimed_at key, claimed false.
\* (item_attributes, which no claim transition reads, is left out.)
SampleItem(query, title, description, category) ==
    [query |-> query, item_title |-> title, item_description |-> description,
     item_category |-> category, id |-> Undefined, claimed |-> FALSE,
     claimed_at |-> Undefined]

getSampleData ==
    << SampleItem("red running shoes", Nike,
                  "Experience ultimate comfort and performance with these vibrant red running shoes. Featuring advanced Zoom Air technology for responsive cushioning and durable traction.",
                  "Footwear"),
       SampleItem("blue summer dress", Dress,
                  "Elegant floor-length summer dress with soft cotton fabric and blue floral pattern.",
                  "Clothing"),
       SampleItem("smartwatch with GPS", Watch,
                  "Advanced smartwatch with GPS, health tracking, and bright Retina display.",
                  "Wearables") >>

\* The four request fields of a form or of an item.
Fields(r) ==
    [query |-> r.query, item_title |-> r.item_title,
     item_description |-> r.item_description, item_category |-> r.item_category]

EmptyForm == [query |-> "", item_title |-> "", item_description |-> "", item_category |-> ""]

\* What a user types into the form by hand.
ManualForm ==
    [query |-> "typed query", item_title |-> "typed title",
     item_description |-> "typed description", item_category |-> "typed category"]

TypedForms ==
    { ManualForm,
      [ManualForm EXCEPT !.item_category = ""],
      [ManualForm EXCEPT !.query = " "] }

\* Scores the oracle answers with (its contract is 0..8).
OracleScores == {0, 8}

\* localStorage entries: absent, or the stored value.
None == [has |-> FALSE]
Some(v) == [has |-> TRUE, val |-> v]

\* An entry whose text JSON.parse rejects.
Malformed == [has |-> TRUE, malformed |-> TRUE]

malformed(entry) == entry = Malformed

emptyStorage ==
    [searchItems |-> None, currentEvaluationItem |-> None,
     evaluationHistory |-> None, batchHistory |-> None]

\* previousStats as the script declares it: the counters before any update.
previousStats == [total |-> 0, average |-> 0, excellent |-> 0, good |-> 0, poor |-> 0]

\* What the page shows before the script has updated anything.
initialStatistics ==
    [total |-> 0, average |-> 0, excellent |-> 0, good |-> 0, poor |-> 0,
     counts |-> [score \in 0..8 |-> 0],
     progress |-> [excellent |-> 0, good |-> 0, poor |-> 0, of |-> 0],
     totalTrend |-> 0, averageTrend |-> 0,
     previousStats |-> previousStats, before |-> previousStats]

Take(s, n) == SubSeq(s, 1, IF Len(s) < n THEN Len(s) ELSE n)

Booleans == {TRUE, FALSE}

VARIABLES
    page,                \* which screen is mounted: closed, landing, evaluate, batch, tabs, legacy
    now,                 \* the value the next new Date() / Date.now() returns
    localStorage,        \* the browser's key-value store
    items,               \* useLocalStorage('searchItems') state of the mounted page
    currentClaimedItem,  \* LandingPage state: the active item, or Null
    navigationItem,      \* location.state.item of the evaluation page, or Null
    prefillItem,         \* EvaluationApp state, handed to SingleEvaluation, or Null
    formData,            \* SingleEvaluation state: the four required fields
    history,             \* useHistory state of SingleEvaluation, newest first
    isSubmitting,        \* SingleEvaluation state
    formFromItem,        \* whether the form's content was taken from a claimed item
    result,              \* SingleEvaluation state of the auto-evaluating form: the result shown
    inflight,            \* requests sent to the oracle and not yet answered
    oracleCalls,         \* number of requests sent to the oracle
    evaluationHistory,   \* classic page: the script's evaluationHistory
    batchHistory,        \* classic page: the script's batchHistory
    batchInput,          \* classic page: the array the batch text area holds
    legacyInflight,      \* classic page: requests sent and not yet answered
    currentBatchResults, \* classic page: the script's currentBatchResults
    statistics,          \* classic page: the counters updateStatistics last showed
    pageBatchInput,      \* batch form state: the value its text denotes, or None when blank
    batchResults,        \* batch form state results: the results shown
    isEvaluating,        \* batch form state
    batchInflight,       \* batch form: payloads sent and not yet answered
    panelHistory,        \* useHistory state of the HistoryPanel beside the tabs, newest first
    lastOp               \* the last handler that ran, its argument and what it reported

vars == << page, now, localStorage, items, currentClaimedItem, navigationItem,
           prefillItem, formData, history, isSubmitting, formFromItem, result, inflight,
           oracleCalls, evaluationHistory, batchHistory, batchInput, legacyInflight,
           currentBatchResults, statistics, pageBatchInput, batchResults, isEvaluating, batchInflight,
           panelHistory, lastOp >>

landingVars == << items, currentClaimedItem >>
batchVars == << pageBatchInput, batchResults, isEvaluating, batchInflight, panelHistory >>
legacyVars ==
    << evaluationHistory, batchHistory, batchInput, legacyInflight, currentBatchResults,
       statistics >>
evaluateVars == << navigationItem, prefillItem, formData, history, isSubmitting,
                   formFromItem, result, inflight >>

\* asked counts the window.confirm dialogs the handler showed.
Op(name, item, id, outcome) ==
    [op |-> name, item |-> item, id |-> id, result |-> outcome, asked |-> 0]

Asked(o, n) == [o EXCEPT !.asked = n]

\* ------------------------------------------------------- useLocalStorage
\* Initial state of the hook for key 'searchItems': the stored catalog, or
\* the sample set, which is then stored at once.
\* Text that does not parse makes the initializer throw into its own catch,
\* which returns initialValue, [] for the catalog, and stores nothing.
useLocalStorageInit(store) ==
    IF malformed(store.searchItems) THEN << >>
    ELSE IF store.searchItems.has THEN store.searchItems.val ELSE getSampleData

\* A first load that seeds the state and stores nothing.
useLocalStorageInitUnstored(store) == store

useLocalStorageInitStore(store) ==
    IF store.searchItems.has THEN store
    ELSE [store EXCEPT !.searchItems = Some(getSampleData)]

\* An exception that leaves the first render or the script: nothing mounts,
\* no handler is registered.
loadThrows(store) ==
    /\ page' = "crashed"
    /\ localStorage' = store
    /\ lastOp' = Op("open", Null, Undefined, "SyntaxError")
    /\ UNCHANGED << batchVars, legacyVars, now, landingVars, evaluateVars, oracleCalls >>

\* setValue: the new state and the store after it.
setValue(store, value) == [store EXCEPT !.searchItems = Some(value)]

\* A search that returns the last available item instead of the first.
LastAvailable(its) ==
    IF \E i \in 1..Len(its) : ~its[i].claimed
    THEN CHOOSE i \in 1..Len(its) :
            ~its[i].claimed /\ \A j \in (i+1)..Len(its) : its[j].claimed
    ELSE 0

\* The first catalog item that is not claimed, as an index; 0 when none.
FirstAvailable(its) ==
    IF \E i \in 1..Len(its) : ~its[i].claimed
    THEN CHOOSE i \in 1..Len(its) : ~its[i].claimed /\ \A j \in 1..(i-1) : its[j].claimed
    ELSE 0

\* A marking that sets the flag and forgets the timestamp.
MarkClaimedNoTime(its, title, t) ==
    [i \in 1..Len(its) |->
        IF its[i].item_title = title THEN [its[i] EXCEPT !.claimed = TRUE] ELSE its[i]]

\* items.map of handleClaim: every item with the given title becomes claimed now.
MarkClaimed(its, title, t) ==
    [i \in 1..Len(its) |->
        IF its[i].item_title = title
        THEN [its[i] EXCEPT !.claimed = TRUE, !.claimed_at = t]
        ELSE its[i]]

\* ---------------------------------------------------------------- Init
Init ==
    /\ page = "closed"
    /\ now = Epoch
    /\ localStorage = emptyStorage
    /\ items = << >>
    /\ currentClaimedItem = None
    /\ navigationItem = None
    /\ prefillItem = None
    /\ formData = EmptyForm
    /\ history = << >>
    /\ isSubmitting = FALSE
    /\ formFromItem = FALSE
    /\ result = None
    /\ inflight = << >>
    /\ oracleCalls = 0
    /\ evaluationHistory = << >>
    /\ batchHistory = << >>
    /\ batchInput = << >>
    /\ legacyInflight = << >>
    /\ currentBatchResults = << >>
    /\ statistics = initialStatistics
    /\ pageBatchInput = None
    /\ batchResults = << >>
    /\ isEvaluating = FALSE
    /\ batchInflight = << >>
    /\ panelHistory = << >>
    /\ lastOp = Op("none", Null, Undefined, "none")

\* Time passes between two events.
Tick ==
    /\ now < Epoch + MaxClock - 1
    /\ now' = now + 1
    /\ lastOp' = Op("tick", Null, Undefined, "none")
    /\ UNCHANGED << batchVars, legacyVars, page, localStorage, landingVars, evaluateVars, oracleCalls >>

\* --------------------------------------------------------------- mounting
NoEvaluatePage ==
    /\ navigationItem' = None
    /\ prefillItem' = None
    /\ formData' = EmptyForm
    /\ history' = << >>
    /\ isSubmitting' = FALSE
    /\ formFromItem' = FALSE
    /\ result' = None
    /\ inflight' = << >>

\* The state of a batch form that has just mounted, or is not mounted.
NoBatchForm ==
    /\ pageBatchInput' = None
    /\ batchResults' = << >>
    /\ isEvaluating' = FALSE
    /\ batchInflight' = << >>

\* Mounting LandingPage: the catalog hook initialises from the store (seeding
\* it on first use) and the effect restores the active item from the store.
MountLanding(store) ==
    /\ page' = "landing"
    /\ items' = useLocalStorageInit(store)
    /\ localStorage' = useLocalStorageInitStore(store)
    /\ currentClaimedItem' = store.currentEvaluationItem
    /\ NoEvaluatePage
    /\ NoBatchForm
    /\ panelHistory' = << >>

\* Mounting EvaluationApp after navigate('/evaluate', {state: {item: nav}}) or
\* with no navigation state (nav = None). SingleEvaluation renders first, with
\* prefillItem still null; then the effects run: useHistory stores its state,
\* EvaluationApp takes the item from the navigation state or from the store.
\* Navbar mounts its own catalog hook.
MountEvaluate(store, nav) ==
    /\ page' = "evaluate"
    /\ items' = useLocalStorageInit(store)
    /\ currentClaimedItem' = None
    /\ navigationItem' = nav
    /\ formData' = IF nav.has THEN nav.val ELSE EmptyForm
    /\ history' = IF store.evaluationHistory.has THEN store.evaluationHistory.val ELSE << >>
    /\ isSubmitting' = FALSE
    /\ formFromItem' = nav.has
    /\ result' = None
    /\ inflight' = << >>
    /\ prefillItem' = IF nav.has THEN nav ELSE store.currentEvaluationItem
    /\ NoBatchForm
    /\ panelHistory' = << >>
    /\ localStorage' =
          [useLocalStorageInitStore(store) EXCEPT
              !.evaluationHistory =
                  Some(IF store.evaluationHistory.has THEN store.evaluationHistory.val ELSE << >>),
              !.currentEvaluationItem = IF nav.has THEN nav ELSE @]

\* Mounting BatchEvaluationPage, whose Navbar mounts a catalog hook.
MountBatch(store) ==
    /\ page' = "batch"
    /\ items' = useLocalStorageInit(store)
    /\ localStorage' = useLocalStorageInitStore(store)
    /\ currentClaimedItem' = None
    /\ NoEvaluatePage
    /\ NoBatchForm
    /\ panelHistory' = << >>

OpenLanding ==
    /\ page = "closed"
    /\ MountLanding(localStorage)
    /\ lastOp' = Op("open", Null, Undefined, "landing")
    /\ UNCHANGED << legacyVars, now, oracleCalls >>

\* The browser opens the route /evaluate directly.
\* useHistory's initializer parses the stored text outside any try: text that
\* does not parse throws out of SingleEvaluation's first render, after the
\* Navbar above it has mounted its catalog hook.
OpenEvaluate ==
    /\ page = "closed"
    /\ IF malformed(localStorage.evaluationHistory)
       THEN loadThrows(useLocalStorageInitStore(localStorage))
       ELSE /\ MountEvaluate(localStorage, None)
            /\ lastOp' = Op("open", Null, Undefined, "evaluate")
            /\ UNCHANGED << legacyVars, now, oracleCalls >>

\* A handleClaim that switches without asking.
handleClaimNoConfirm(caller, i, confirmed) ==
    LET item == items[i] IN
    IF item.claimed
    THEN /\ MountEvaluate([localStorage EXCEPT !.currentEvaluationItem = Some(Fields(item))],
                          Some(Fields(item)))
         /\ lastOp' = Op(caller, item.item_title, Undefined, "continue")
         /\ UNCHANGED << legacyVars, now, oracleCalls >>
    ELSE /\ MountEvaluate(
               [[localStorage EXCEPT !.searchItems =
                    Some([k \in 1..Len(items) |->
                            IF items[k].item_title = item.item_title
                            THEN [items[k] EXCEPT !.claimed = TRUE, !.claimed_at = now]
                            ELSE items[k]])]
                   EXCEPT !.currentEvaluationItem = Some(Fields(item))],
               Some(Fields(item)))
         /\ lastOp' = Op(caller, item.item_title, Undefined, "claimed")
         /\ UNCHANGED << legacyVars, now, oracleCalls >>

\* ------------------------------------------------------------ LandingPage
\* handleClaim(item) for the catalog item at index i, called by 'caller';
\* confirmed is the answer window.confirm gives when it is asked.
handleClaim(caller, i, confirmed) ==
    LET item == items[i]
        before == IF caller = "handleClaimNext" /\ currentClaimedItem.has THEN 1 ELSE 0
        otherActive == /\ currentClaimedItem.has
                       /\ currentClaimedItem.val.item_title # item.item_title
    IN
    IF item.claimed
    THEN \* already claimed: continue
         /\ MountEvaluate([localStorage EXCEPT !.currentEvaluationItem = Some(Fields(item))],
                          Some(Fields(item)))
         /\ lastOp' = Asked(Op(caller, item.item_title, Undefined, "continue"), before)
         /\ UNCHANGED << legacyVars, now, oracleCalls >>
    ELSE IF otherActive /\ ~confirmed
    THEN \* another item is active and the switch is declined
         /\ lastOp' = Asked(Op(caller, item.item_title, Undefined, "declined"), before + 1)
         /\ UNCHANGED << batchVars, legacyVars, page, now, localStorage, landingVars, evaluateVars, oracleCalls >>
    ELSE \* mark claimed
         /\ MountEvaluate(
               [setValue(localStorage, MarkClaimed(items, item.item_title, now))
                   EXCEPT !.currentEvaluationItem = Some(Fields(item))],
               Some(Fields(item)))
         /\ lastOp' = Asked(Op(caller, item.item_title, Undefined, "claimed"),
                            before + (IF otherActive THEN 1 ELSE 0))
         /\ UNCHANGED << legacyVars, now, oracleCalls >>

HandleClaim ==
    /\ page = "landing"
    /\ \E i \in 1..Len(items), confirmed \in Booleans : handleClaim("handleClaim", i, confirmed)

\* A handleClaimNext that, finding nothing available, claims the first item again.
handleClaimNextAgain(confirmNext, confirmed) ==
    IF currentClaimedItem.has /\ ~confirmNext
    THEN /\ lastOp' = Asked(Op("handleClaimNext", Null, Undefined, "declined"), 1)
         /\ UNCHANGED << batchVars, legacyVars, page, now, localStorage, landingVars, evaluateVars, oracleCalls >>
    ELSE /\ MountEvaluate(
               [[localStorage EXCEPT !.searchItems =
                    Some([k \in 1..Len(items) |->
                            IF k = 1 THEN [items[k] EXCEPT !.claimed = TRUE, !.claimed_at = now]
                            ELSE items[k]])]
                   EXCEPT !.currentEvaluationItem = Some(Fields(items[1]))],
               Some(Fields(items[1])))
         /\ lastOp' = Op("handleClaimNext", items[1].item_title, Undefined, "claimed")
         /\ UNCHANGED << legacyVars, now, oracleCalls >>

\* handleClaimNext: confirmNext answers its own question, confirmed the one
\* handleClaim may ask afterwards.
handleClaimNext(confirmNext, confirmed) ==
    IF currentClaimedItem.has /\ ~confirmNext
    THEN /\ lastOp' = Asked(Op("handleClaimNext", Null, Undefined, "declined"), 1)
         /\ UNCHANGED << batchVars, legacyVars, page, now, localStorage, landingVars, evaluateVars, oracleCalls >>
    ELSE IF FirstAvailable(items) = 0
    THEN /\ lastOp' = Asked(Op("handleClaimNext", Null, Undefined, "PoolExhausted"),
                            IF currentClaimedItem.has THEN 1 ELSE 0)
         /\ UNCHANGED << batchVars, legacyVars, page, now, localStorage, landingVars, evaluateVars, oracleCalls >>
    ELSE handleClaim("handleClaimNext", FirstAvailable(items), confirmed)

HandleClaimNext ==
    /\ page = "landing"
    /\ \E confirmNext \in Booleans, confirmed \in Booleans :
          handleClaimNext(confirmNext, confirmed)

ContinueEvaluation ==
    \* the 'Continue Evaluation' button, shown while an item is active
    /\ page = "landing"
    /\ currentClaimedItem.has
    /\ MountEvaluate(localStorage, currentClaimedItem)
    /\ lastOp' = Op("continueEvaluation", currentClaimedItem.val.item_title, Undefined, "navigate")
    /\ UNCHANGED << legacyVars, now, oracleCalls >>

GoToEvaluation ==
    \* the 'Go to Evaluation' button: navigate('/evaluate') without state
    /\ page = "landing"
    /\ MountEvaluate(localStorage, None)
    /\ lastOp' = Op("goToEvaluation", Null, Undefined, "navigate")
    /\ UNCHANGED << legacyVars, now, oracleCalls >>

handleBatchEvaluate ==
    /\ page = "landing"
    /\ MountBatch(localStorage)
    /\ lastOp' = Op("handleBatchEvaluate", Null, Undefined, "navigate")
    /\ UNCHANGED << legacyVars, now, oracleCalls >>

\* A resetValue that rewrites the store and leaves the hook state as it is.
resetValueStoreOnly(store, storedValue) ==
    [value |-> storedValue,
     store |-> [store EXCEPT !.searchItems = Some(getSampleData)]]

\* resetValue of the catalog hook: the new hook state and the new store.
resetValue(store, storedValue) ==
    [value |-> getSampleData,
     store |-> [store EXCEPT !.searchItems = Some(getSampleData)]]

\* LandingPage.handleReset ('Reset All Data').
handleReset(confirmed) ==
    IF ~confirmed
    THEN /\ lastOp' = Asked(Op("handleReset", Null, Undefined, "declined"), 1)
         /\ UNCHANGED << batchVars, legacyVars, page, now, localStorage, landingVars, evaluateVars, oracleCalls >>
    ELSE /\ items' = resetValue(localStorage, items).value
         /\ localStorage' =
               [resetValue(localStorage, items).store EXCEPT
                   !.currentEvaluationItem = None, !.evaluationHistory = None]
         /\ currentClaimedItem' = None
         /\ lastOp' = Asked(Op("handleReset", Null, Undefined, "reset"), 1)
         /\ UNCHANGED << batchVars, legacyVars, page, now, evaluateVars, oracleCalls >>

HandleReset ==
    /\ page = "landing"
    /\ \E confirmed \in Booleans : handleReset(confirmed)

\* Navbar.handleResetData ('Reset'), on the pages that show the Navbar.
handleResetData(confirmed) ==
    IF ~confirmed
    THEN /\ lastOp' = Asked(Op("handleResetData", Null, Undefined, "declined"), 1)
         /\ UNCHANGED << batchVars, legacyVars, page, now, localStorage, landingVars, evaluateVars, oracleCalls >>
    ELSE /\ items' = resetValue(localStorage, items).value
         /\ localStorage' = resetValue(localStorage, items).store
         /\ lastOp' = Asked(Op("handleResetData", Null, Undefined, "reset"), 1)
         /\ UNCHANGED << batchVars, legacyVars, page, now, currentClaimedItem, evaluateVars, oracleCalls >>

HandleResetData ==
    /\ page \in {"evaluate", "batch"}
    /\ inflight = << >>
    /\ \E confirmed \in Booleans : handleResetData(confirmed)

\* The Navbar's back button: window.history.back() to the landing page.
NavbarBack ==
    /\ page \in {"evaluate", "batch"}
    /\ inflight = << >>
    /\ batchInflight = << >>
    /\ MountLanding(localStorage)
    /\ lastOp' = Op("back", Null, Undefined, "navigate")
    /\ UNCHANGED << legacyVars, now, oracleCalls >>

\* ------------------------------------------------------------ useLocalData
\* Ids a caller passes: the id of a catalog item (the sample items have
\* none) or a number.
ItemIds == {Undefined, 1}

ClaimById(its, itemId, t) ==
    [i \in 1..Len(its) |->
        IF its[i].id = itemId
        THEN [its[i] EXCEPT !.claimed = TRUE, !.claimed_at = t]
        ELSE its[i]]

UnclaimById(its, itemId) ==
    [i \in 1..Len(its) |->
        IF its[i].id = itemId
        THEN [its[i] EXCEPT !.claimed = FALSE, !.claimed_at = Undefined]
        ELSE its[i]]

ResetAllClaims(its) ==
    [i \in 1..Len(its) |->
        IF its[i].claimed
        THEN [its[i] EXCEPT !.claimed = FALSE, !.claimed_at = Undefined]
        ELSE its[i]]

Found(its, itemId) == \E i \in 1..Len(its) : its[i].id = itemId

claimItem(itemId) ==
    /\ items' = ClaimById(items, itemId, now)
    /\ localStorage' = setValue(localStorage, ClaimById(items, itemId, now))
    /\ lastOp' = Op("claimItem", Null, itemId, IF Found(items, itemId) THEN "item" ELSE "null")
    /\ UNCHANGED << batchVars, legacyVars, page, now, currentClaimedItem, evaluateVars, oracleCalls >>

ClaimItem ==
    /\ page = "landing"
    /\ \E itemId \in ItemIds : claimItem(itemId)

unclaimItem(itemId) ==
    /\ items' = UnclaimById(items, itemId)
    /\ localStorage' = setValue(localStorage, UnclaimById(items, itemId))
    /\ lastOp' = Op("unclaimItem", Null, itemId, IF Found(items, itemId) THEN "item" ELSE "null")
    /\ UNCHANGED << batchVars, legacyVars, page, now, currentClaimedItem, evaluateVars, oracleCalls >>

UnclaimItem ==
    /\ page = "landing"
    /\ \E itemId \in ItemIds : unclaimItem(itemId)

resetClaims ==
    /\ page = "landing"
    /\ items' = ResetAllClaims(items)
    /\ localStorage' = setValue(localStorage, ResetAllClaims(items))
    /\ lastOp' = Op("resetClaims", Null, Undefined, "reset")
    /\ UNCHANGED << batchVars, legacyVars, page, now, currentClaimedItem, evaluateVars, oracleCalls >>

resetDatabase ==
    /\ page = "landing"
    /\ items' = resetValue(localStorage, items).value
    /\ localStorage' = resetValue(localStorage, items).store
    /\ lastOp' = Op("resetDatabase", Null, Undefined, "reset")
    /\ UNCHANGED << batchVars, legacyVars, page, now, currentClaimedItem, evaluateVars, oracleCalls >>

\* --------------------------------------------------------------- useHistory
\* An addToHistory that puts the new entry behind the others.
addToHistoryAtEnd(prev, item) ==
    SubSeq(prev \o << item >>, 1, IF Len(prev) + 1 < HISTORY_LIMIT THEN Len(prev) + 1 ELSE HISTORY_LIMIT)

\* addToHistory: the new entry in front, the list cut to its first 50.
addToHistory(prev, item) == Take(<< item >> \o prev, HISTORY_LIMIT)

\* -------------------------------------------------------- SingleEvaluation
\* String.trim on the strings a form holds.
Trim(str) == IF str = " " THEN "" ELSE str

RequiredFields == {"query", "item_title", "item_description", "item_category"}

missingFields(request) == { f \in RequiredFields : Trim(request[f]) = "" }

\* prefillData = prefillItem || navigationState?.item
prefillData == IF prefillItem.has THEN prefillItem ELSE navigationItem

hasPrefilledData == \E f \in RequiredFields : formData[f] # ""

\* The history entry handleSubmit builds from the request and the answer.
HistoryEntry(request, prefill, score, t) ==
    [id |-> t, timestamp |-> t,
     query |-> request.query, itemTitle |-> request.item_title,
     itemDescription |-> request.item_description,
     itemCategory |-> request.item_category,
     score |-> score,
     source |-> IF prefill.has THEN "claimed_item" ELSE "manual_entry",
     itemId |-> Undefined]

\* The user edits the form (handleFieldChange).
handleFieldChange ==
    /\ page = "evaluate"
    /\ ~isSubmitting
    /\ \E typed \in TypedForms : formData' = typed
    /\ lastOp' = Op("handleFieldChange", Null, Undefined, "typed")
    /\ UNCHANGED << batchVars, legacyVars, page, now, localStorage, landingVars, navigationItem, prefillItem,
                    history, isSubmitting, formFromItem, inflight, oracleCalls, result >>

\* The 'Refresh' button of the prefill banner.
RefreshForm ==
    /\ page = "evaluate"
    /\ hasPrefilledData
    /\ prefillData.has
    /\ formData' = prefillData.val
    /\ formFromItem' = TRUE
    /\ lastOp' = Op("refresh", prefillData.val.item_title, Undefined, "prefilled")
    /\ UNCHANGED << batchVars, legacyVars, page, now, localStorage, landingVars, navigationItem, prefillItem,
                    history, isSubmitting, inflight, oracleCalls, result >>

\* handleClearForm; after a navigation from the landing page it reloads the
\* page (navigate(0)), whose navigation state EvaluationApp has replaced.
handleClearForm(confirmed) ==
    IF ~confirmed
    THEN /\ lastOp' = Asked(Op("handleClearForm", Null, Undefined, "declined"), 1)
         /\ UNCHANGED << batchVars, legacyVars, page, now, localStorage, landingVars, evaluateVars, oracleCalls >>
    ELSE IF navigationItem.has
    THEN /\ MountEvaluate([localStorage EXCEPT !.currentEvaluationItem = None], None)
         /\ lastOp' = Asked(Op("handleClearForm", Null, Undefined, "reloaded"), 1)
         /\ UNCHANGED << legacyVars, now, oracleCalls >>
    ELSE /\ formData' = EmptyForm
         /\ formFromItem' = FALSE
         /\ localStorage' = [localStorage EXCEPT !.currentEvaluationItem = None]
         /\ lastOp' = Asked(Op("handleClearForm", Null, Undefined, "cleared"), 1)
         /\ UNCHANGED << batchVars, legacyVars, page, now, landingVars, navigationItem, prefillItem,
                         history, isSubmitting, inflight, oracleCalls, result >>

HandleClearForm ==
    /\ page = "evaluate"
    /\ \E confirmed \in Booleans : handleClearForm(confirmed)

\* handleSubmit up to its await: validation, then the request is sent.
handleSubmit ==
    /\ page = "evaluate"
    /\ ~isSubmitting
    /\ IF missingFields(formData) # {}
       THEN /\ lastOp' = Op("handleSubmit", formData.item_title, Undefined, "ValidationError")
            /\ UNCHANGED << batchVars, legacyVars, page, now, localStorage, landingVars, evaluateVars, oracleCalls >>
       ELSE /\ oracleCalls < MaxCalls
            /\ inflight' = Append(inflight, [request |-> formData, prefill |-> prefillData,
                                              fromItem |-> formFromItem])
            /\ isSubmitting' = TRUE
            /\ oracleCalls' = oracleCalls + 1
            /\ lastOp' = Op("handleSubmit", formData.item_title, Undefined, "sent")
            /\ UNCHANGED << batchVars, legacyVars, page, now, localStorage, landingVars, navigationItem,
                            prefillItem, formData, history, formFromItem, result >>

\* handleSubmit after its await: the oracle answered with a score.
evaluateSingleResolved(score) ==
    LET call == Head(inflight)
        entry == HistoryEntry(call.request, call.prefill, score, now)
    IN  /\ history' = addToHistory(history, entry)
        /\ localStorage' =
              [localStorage EXCEPT
                  !.evaluationHistory = Some(addToHistory(history, entry)),
                  !.currentEvaluationItem = IF call.prefill.has THEN None ELSE @]
        /\ inflight' = Tail(inflight)
        /\ isSubmitting' = FALSE
        /\ lastOp' = Op("evaluateSingle", call.request.item_title, Undefined, "success")
        /\ UNCHANGED << batchVars, legacyVars, page, now, landingVars, navigationItem, prefillItem, formData,
                        formFromItem, oracleCalls, result >>

EvaluateSingleResolved ==
    /\ page = "evaluate"
    /\ inflight # << >>
    /\ \E score \in OracleScores : evaluateSingleResolved(score)

\* A failure path that records the failed request in the history.
EvaluateSingleRejectedRecorded ==
    /\ page = "evaluate"
    /\ inflight # << >>
    /\ inflight' = Tail(inflight)
    /\ isSubmitting' = FALSE
    /\ history' = << [id |-> now, timestamp |-> now, query |-> Head(inflight).request.query,
                      itemTitle |-> Head(inflight).request.item_title,
                      itemDescription |-> Head(inflight).request.item_description,
                      itemCategory |-> Head(inflight).request.item_category,
                      score |-> 0, source |-> "manual_entry", itemId |-> Undefined] >> \o history
    /\ lastOp' = Op("evaluateSingle", Head(inflight).request.item_title, Undefined, "OracleError")
    /\ UNCHANGED << batchVars, legacyVars, page, now, localStorage, landingVars, navigationItem, prefillItem,
                    formData, formFromItem, oracleCalls, result >>

\* A failure path that leaves the form submitting.
EvaluateSingleRejectedStillSubmitting ==
    /\ page = "evaluate"
    /\ inflight # << >>
    /\ inflight' = Tail(inflight)
    /\ lastOp' = Op("evaluateSingle", Head(inflight).request.item_title, Undefined, "OracleError")
    /\ UNCHANGED << batchVars, legacyVars, page, now, localStorage, landingVars, navigationItem, prefillItem,
                    formData, history, isSubmitting, formFromItem, oracleCalls, result >>

\* handleSubmit after its await: the request failed or was refused.
EvaluateSingleRejected ==
    /\ page = "evaluate"
    /\ inflight # << >>
    /\ inflight' = Tail(inflight)
    /\ isSubmitting' = FALSE
    /\ lastOp' = Op("evaluateSingle", Head(inflight).request.item_title, Undefined, "OracleError")
    /\ UNCHANGED << batchVars, legacyVars, page, now, localStorage, landingVars, navigationItem, prefillItem,
                    formData, history, formFromItem, oracleCalls, result >>

\* ------------------------------------------------------------ classic page
\* The page script: evaluationHistory and batchHistory are read from the
\* store when the script loads; the stored batch records are migrated.
NotANumber == -1

\* parseFloat(v) || 0 on the values a score field holds.
parseFloatOrZero(v) == IF v = NotANumber \/ v = Undefined THEN 0 ELSE v

\* r.score of an oracle result: the results carry relevance_score, not score.
scoreOf(r) == NotANumber

migrate(batches) ==
    [k \in 1..Len(batches) |->
        [batches[k] EXCEPT !.results =
            [j \in 1..Len(@) |-> [score |-> parseFloatOrZero(@[j].score), reason |-> @[j].reason]]]]

RECURSIVE sumHistoryRange(_, _, _)
sumHistoryRange(h, lo, hi) ==
    IF lo > hi THEN 0
    ELSE IF lo = hi THEN h[lo].score
    ELSE sumHistoryRange(h, lo, (lo + hi) \div 2) + sumHistoryRange(h, (lo + hi) \div 2 + 1, hi)

sumHistory(h, n) == sumHistoryRange(h, 1, n)

countScore(h, s) == Cardinality({ k \in 1..Len(h) : h[k].score = s })

\* The three progress bars: the number of entries in each band, of totalScores.
bandsWithoutGood(counts, totalScores) ==
    [excellent |-> counts[8],
     good |-> counts[6] + counts[5],
     poor |-> counts[4] + counts[3] + counts[2] + counts[1] + counts[0],
     of |-> totalScores]

bands(counts, totalScores) ==
    [excellent |-> counts[8] + counts[7],
     good |-> counts[6] + counts[5],
     poor |-> counts[4] + counts[3] + counts[2] + counts[1] + counts[0],
     of |-> totalScores]

\* A recompute that leaves previousStats as it was.
updateStatisticsKeepPrevious(h, stats) ==
    LET average == IF Len(h) > 0 THEN ((sumHistory(h, Len(h)) * 100) \div Len(h) + 5) \div 10 ELSE 0
        counts == [score \in 0..8 |-> countScore(h, score)]
    IN  [total |-> Len(h), average |-> average,
         excellent |-> counts[8], good |-> counts[7], poor |-> counts[4] + counts[3],
         counts |-> counts,
         progress |-> IF Len(h) > 0 THEN bands(counts, Len(h)) ELSE stats.progress,
         totalTrend |-> Len(h) - stats.previousStats.total,
         averageTrend |-> average - stats.previousStats.average,
         previousStats |-> stats.previousStats, before |-> stats.previousStats]

\* updateStatistics on the history h when the page shows stats: the counters,
\* the nine per-score counts, the progress bars (left alone when h is empty),
\* the trends against previousStats, and the new previousStats. The average
\* is (sum / length).toFixed(1), in tenths; before is previousStats as this
\* call found it.
updateStatistics(h, stats) ==
    LET average == IF Len(h) > 0 THEN ((sumHistory(h, Len(h)) * 100) \div Len(h) + 5) \div 10 ELSE 0
        counts == [score \in 0..8 |-> countScore(h, score)]
    IN  [total |-> Len(h), average |-> average,
         excellent |-> counts[8], good |-> counts[7], poor |-> counts[4] + counts[3],
         counts |-> counts,
         progress |-> IF Len(h) > 0 THEN bands(counts, Len(h)) ELSE stats.progress,
         totalTrend |-> Len(h) - stats.previousStats.total,
         averageTrend |-> average - stats.previousStats.average,
         previousStats |-> [total |-> Len(h), average |-> average, excellent |-> counts[8],
                            good |-> counts[7],
                            poor |-> counts[4] + counts[3] + counts[2]],
         before |-> stats.previousStats]

\* The script loads: the globals are read from the store, the batch records
\* migrated, and updateStatistics() runs at the end of the script and again in
\* the DOMContentLoaded listener.
OpenLegacy ==
    /\ page = "closed"
    /\ IF malformed(localStorage.evaluationHistory) \/ malformed(localStorage.batchHistory)
       THEN loadThrows(localStorage)
       ELSE /\ page' = "legacy"
            /\ evaluationHistory' =
                  IF localStorage.evaluationHistory.has
                  THEN localStorage.evaluationHistory.val ELSE << >>
            /\ batchHistory' =
                  migrate(IF localStorage.batchHistory.has
                          THEN localStorage.batchHistory.val ELSE << >>)
            /\ statistics' =
                  LET loaded == IF localStorage.evaluationHistory.has
                                THEN localStorage.evaluationHistory.val ELSE << >>
                  IN  updateStatistics(loaded, updateStatistics(loaded, statistics))
            /\ lastOp' = Op("open", Null, Undefined, "legacy")
            /\ UNCHANGED << batchVars, now, localStorage, landingVars, evaluateVars, oracleCalls,
                            batchInput, legacyInflight, currentBatchResults >>

\* The user fills in the single form or the batch text area.
LegacyType ==
    /\ page = "legacy"
    /\ \E typed \in TypedForms : formData' = typed
    /\ lastOp' = Op("input", Null, Undefined, "typed")
    /\ UNCHANGED << batchVars, page, now, localStorage, landingVars, navigationItem, prefillItem,
                    history, isSubmitting, formFromItem, inflight, oracleCalls, legacyVars, result >>

\* The caps of the React batch forms.
TAB_BATCH_CAP == 50
PAGE_BATCH_CAP == 100

\* An array of n items, longer than either cap of the React batch forms.
LONG_BATCH == PAGE_BATCH_CAP + 1
LongForms(n) == [j \in 1..n |-> [ManualForm EXCEPT !.item_title = ToString(j)]]

BatchInputs ==
    { << ManualForm >>,
      << ManualForm, Fields(getSampleData[1]) >>,
      << ManualForm, [ManualForm EXCEPT !.item_category = ""] >> }

LongBatchInputs == { LongForms(LONG_BATCH) }

LegacyTypeBatch ==
    /\ page = "legacy"
    /\ \E typed \in BatchInputs : batchInput' = typed
    /\ lastOp' = Op("batchInput", Null, Undefined, "typed")
    /\ UNCHANGED << batchVars, page, now, localStorage, landingVars, evaluateVars, oracleCalls,
                    evaluationHistory, batchHistory, legacyInflight, currentBatchResults, statistics >>

\* The user pastes a long array into the batch text area.
LegacyTypeLongBatch ==
    /\ page = "legacy"
    /\ \E typed \in LongBatchInputs : batchInput' = typed
    /\ lastOp' = Op("batchInput", Null, Undefined, "typed")
    /\ UNCHANGED << batchVars, page, now, localStorage, landingVars, evaluateVars, oracleCalls,
                    evaluationHistory, batchHistory, legacyInflight, currentBatchResults, statistics >>

\* validateForm: the query and the description must not be blank.
validateForm(form) == Trim(form.query) # "" /\ Trim(form.item_description) # ""

\* The submit listener of the single form, up to its await.
LegacySubmit ==
    /\ page = "legacy"
    /\ IF ~validateForm(formData)
       THEN /\ lastOp' = Op("submit", formData.item_title, Undefined, "ValidationError")
            /\ UNCHANGED << batchVars, page, now, localStorage, landingVars, evaluateVars,
                            oracleCalls, legacyVars >>
       ELSE /\ oracleCalls < MaxCalls
            /\ legacyInflight' = Append(legacyInflight, [kind |-> "single", items |-> << formData >>])
            /\ oracleCalls' = oracleCalls + 1
            /\ lastOp' = Op("submit", formData.item_title, Undefined, "sent")
            /\ UNCHANGED << batchVars, page, now, localStorage, landingVars, evaluateVars,
                            evaluationHistory, batchHistory, batchInput, currentBatchResults, statistics >>

\* The script's addToHistory(query, item, result).
legacyHistoryItem(item, score, t) ==
    [id |-> t, timestamp |-> t, query |-> item.query, itemTitle |-> item.item_title,
     itemDescription |-> item.item_description, itemCategory |-> item.item_category,
     score |-> score]

legacyAddToHistory(prev, historyItem) ==
    IF Len(<< historyItem >> \o prev) > HISTORY_LIMIT
    THEN SubSeq(<< historyItem >> \o prev, 1, HISTORY_LIMIT)
    ELSE << historyItem >> \o prev

\* The index of some pending request of the given kind.
Pending(kind) == { k \in 1..Len(legacyInflight) : legacyInflight[k].kind = kind }

Remove(s, k) == [j \in 1..(Len(s) - 1) |-> IF j < k THEN s[j] ELSE s[j + 1]]

\* The single request is answered with a success status: addToHistory, which
\* ends with updateStatistics(), and then the listener's own updateStatistics().
legacySingleResolved(k, score) ==
    LET added == legacyAddToHistory(evaluationHistory,
                     legacyHistoryItem(legacyInflight[k].items[1], score, now))
    IN  /\ evaluationHistory' = added
        /\ statistics' = updateStatistics(added, updateStatistics(added, statistics))
        /\ localStorage' = [localStorage EXCEPT !.evaluationHistory = Some(added)]
        /\ legacyInflight' = Remove(legacyInflight, k)
        /\ lastOp' = Op("submit", legacyInflight[k].items[1].item_title, Undefined, "success")
        /\ UNCHANGED << batchVars, page, now, landingVars, evaluateVars, oracleCalls,
                        batchHistory, batchInput, currentBatchResults >>

LegacySingleResolved ==
    /\ page = "legacy"
    /\ \E k \in Pending("single"), score \in OracleScores : legacySingleResolved(k, score)

\* The single request fails: a refusal of the server or a network error.
LegacySingleRejected ==
    /\ page = "legacy"
    /\ \E k \in Pending("single") :
          /\ legacyInflight' = Remove(legacyInflight, k)
          /\ lastOp' = Op("submit", legacyInflight[k].items[1].item_title, Undefined, "OracleError")
    /\ UNCHANGED << batchVars, page, now, localStorage, landingVars, evaluateVars, oracleCalls,
                    evaluationHistory, batchHistory, batchInput, currentBatchResults, statistics >>

\* clearEvaluationHistory, the click listener of the clear button.
clearEvaluationHistory(confirmed) ==
    IF ~confirmed
    THEN /\ lastOp' = Asked(Op("clearEvaluationHistory", Null, Undefined, "declined"), 1)
         /\ UNCHANGED << batchVars, page, now, localStorage, landingVars, evaluateVars,
                         oracleCalls, legacyVars >>
    ELSE /\ evaluationHistory' = << >>
         /\ localStorage' = [localStorage EXCEPT !.evaluationHistory = Some(<< >>)]
         /\ lastOp' = Asked(Op("clearEvaluationHistory", Null, Undefined, "cleared"), 1)
         /\ UNCHANGED << batchVars, page, now, landingVars, evaluateVars, oracleCalls,
                         batchHistory, batchInput, legacyInflight, currentBatchResults,
                         statistics >>

ClearEvaluationHistory ==
    /\ page = "legacy"
    /\ \E confirmed \in Booleans : clearEvaluationHistory(confirmed)

\* evaluateBatch's validation of the parsed array: the 1-based index of the
\* first item that lacks a required field, 0 when every item passes.
invalidFields(item) == { f \in RequiredFields : item[f] = "" \/ Trim(item[f]) = "" }

firstInvalid(batchData) ==
    IF \E i \in 1..Len(batchData) : invalidFields(batchData[i]) # {}
    THEN CHOOSE i \in 1..Len(batchData) :
            /\ invalidFields(batchData[i]) # {}
            /\ \A j \in 1..(i - 1) : invalidFields(batchData[j]) = {}
    ELSE 0

\* A click on the batch button. The script registers two click listeners on
\* it, and each calls evaluateBatch(), which validates and then sends.
BatchClick ==
    /\ page = "legacy"
    /\ batchInput # << >>
    /\ IF firstInvalid(batchInput) # 0
       THEN /\ lastOp' = Op("evaluateBatch", Null, firstInvalid(batchInput), "ValidationError")
            /\ UNCHANGED << batchVars, page, now, localStorage, landingVars, evaluateVars,
                            oracleCalls, legacyVars >>
       ELSE /\ oracleCalls + 2 <= MaxCalls
            /\ legacyInflight' =
                  legacyInflight \o << [kind |-> "batch", items |-> batchInput],
                                       [kind |-> "batch", items |-> batchInput] >>
            /\ oracleCalls' = oracleCalls + 2
            /\ lastOp' = Op("evaluateBatch", Null, Undefined, "sent")
            /\ UNCHANGED << batchVars, page, now, localStorage, landingVars, evaluateVars,
                            evaluationHistory, batchHistory, batchInput, currentBatchResults, statistics >>

\* results.reduce((sum, item) => sum + (parseFloat(item.score) || 0), 0)
RECURSIVE sumScoresRange(_, _, _)
sumScoresRange(results, lo, hi) ==
    IF lo > hi THEN 0
    ELSE IF lo = hi THEN parseFloatOrZero(scoreOf(results[lo]))
    ELSE sumScoresRange(results, lo, (lo + hi) \div 2)
             + sumScoresRange(results, (lo + hi) \div 2 + 1, hi)

sumScores(results, n) == sumScoresRange(results, 1, n)

\* (sum / length).toFixed(1), in tenths.
averageScore(results) ==
    IF Len(results) > 0
    THEN ((sumScores(results, Len(results)) * 100) \div Len(results) + 5) \div 10
    ELSE 0

\* The record evaluateBatch saves for the answered results.
batchRecord(batchData, results, t) ==
    [id |-> t, timestamp |-> t, totalItems |-> Len(batchData), status |-> "completed",
     averageScore |-> averageScore(results),
     results |-> [j \in 1..Len(results) |->
                     [score |-> parseFloatOrZero(scoreOf(results[j])),
                      reason |-> results[j].reason_code]]]

saveBatch(prev, record) ==
    IF Len(<< record >> \o prev) > HISTORY_LIMIT
    THEN SubSeq(<< record >> \o prev, 1, HISTORY_LIMIT)
    ELSE << record >> \o prev

\* Answers of the oracle to a batch of n items: every combination of scores
\* for a short batch, one score throughout for a long one.
ShortBatch == 2

OracleResults(n) ==
    IF n <= ShortBatch
    THEN [1..n -> [relevance_score : OracleScores, reason_code : {"R"}]]
    ELSE { [j \in 1..n |-> [relevance_score |-> score, reason_code |-> "R"]] : score \in OracleScores }

\* displayBatchResults: currentBatchResults = results.map((result, index) =>
\* ({...result, ...originalData[index]})).
displayBatchResults(results, originalData) ==
    [j \in 1..Len(results) |->
        [relevance_score |-> results[j].relevance_score, reason_code |-> results[j].reason_code,
         query |-> originalData[j].query, item_title |-> originalData[j].item_title,
         item_description |-> originalData[j].item_description,
         item_category |-> originalData[j].item_category]]

batchResolved(k, results) ==
    LET saved == saveBatch(batchHistory, batchRecord(legacyInflight[k].items, results, now))
    IN  /\ batchHistory' = saved
        /\ localStorage' = [localStorage EXCEPT !.batchHistory = Some(saved)]
        /\ currentBatchResults' = displayBatchResults(results, legacyInflight[k].items)
        /\ legacyInflight' = Remove(legacyInflight, k)
        /\ lastOp' = Op("evaluateBatch", Null, Undefined, "success")
        /\ UNCHANGED << batchVars, page, now, landingVars, evaluateVars, oracleCalls,
                        evaluationHistory, batchInput, statistics >>

BatchResolved ==
    /\ page = "legacy"
    /\ \E k \in Pending("batch") :
          \E results \in OracleResults(Len(legacyInflight[k].items)) : batchResolved(k, results)

BatchRejected ==
    /\ page = "legacy"
    /\ \E k \in Pending("batch") :
          /\ legacyInflight' = Remove(legacyInflight, k)
          /\ lastOp' = Op("evaluateBatch", Null, Undefined, "OracleError")
    /\ UNCHANGED << batchVars, page, now, localStorage, landingVars, evaluateVars, oracleCalls,
                    evaluationHistory, batchHistory, batchInput, currentBatchResults, statistics >>

\* -------------------------------------------------------------- batch forms
\* JSON values as the parsed batch text holds them; typeof gives "object"
\* for arrays and for mappings alike.
JStr(str) == [type |-> "string", str |-> str]
JNum(num) == [type |-> "number", num |-> num]
JAbsent == [type |-> "undefined"]
JFlat == [type |-> "object", array |-> FALSE, nested |-> FALSE]
JNested == [type |-> "object", array |-> FALSE, nested |-> TRUE]
JArray == [type |-> "object", array |-> TRUE, nested |-> FALSE]

\* !v
Falsy(v) ==
    \/ v.type = "undefined"
    \/ v.type = "string" /\ v.str = ""
    \/ v.type = "number" /\ v.num = 0

BatchItem(form, attributes) ==
    [query |-> JStr(form.query), item_title |-> JStr(form.item_title),
     item_description |-> JStr(form.item_description),
     item_category |-> JStr(form.item_category), item_attributes |-> attributes]

\* The j-th item of a long batch.
NumberedItem(j) == BatchItem([ManualForm EXCEPT !.item_title = ToString(j)], JFlat)

LongBatch(n) == [j \in 1..n |-> NumberedItem(j)]

required == << "query", "item_title", "item_description", "item_category" >>

\* !item[field] || typeof item[field] !== 'string'
badField(item, field) == Falsy(item[field]) \/ item[field].type # "string"

badItem(item) == \E k \in 1..Len(required) : badField(item, required[k])

\* A validation that looks at the first item only.
validateBatchInputFirstItem(data) ==
    IF Len(data) = 0
    THEN [valid |-> FALSE, error |-> "Array cannot be empty", item |-> 0, field |-> Null]
    ELSE IF badItem(data[1])
    THEN [valid |-> FALSE, error |-> "Missing or invalid field", item |-> 1,
          field |-> CHOOSE f \in {required[k] : k \in 1..Len(required)} : badField(data[1], f)]
    ELSE [valid |-> TRUE, error |-> Null, item |-> 0, field |-> Null]

\* validateBatchInput on text that parses to the array data: item is the
\* number the message names (Item i+1), field the field it names.
validateBatchInput(data) ==
    IF Len(data) = 0
    THEN [valid |-> FALSE, error |-> "Array cannot be empty", item |-> 0, field |-> Null]
    ELSE IF \E i \in 1..Len(data) : badItem(data[i])
    THEN LET i == CHOOSE i \in 1..Len(data) :
                     badItem(data[i]) /\ \A j \in 1..(i - 1) : ~badItem(data[j])
             k == CHOOSE k \in 1..Len(required) :
                     /\ badField(data[i], required[k])
                     /\ \A l \in 1..(k - 1) : ~badField(data[i], required[l])
         IN  [valid |-> FALSE, error |-> "Missing or invalid field", item |-> i,
              field |-> required[k]]
    ELSE [valid |-> TRUE, error |-> Null, item |-> 0, field |-> Null]

\* The cap of the mounted batch form: BatchEvaluation (tab) or BatchEvaluationPage.
batchCap == IF page = "tabs" THEN TAB_BATCH_CAP ELSE PAGE_BATCH_CAP

BatchPages == {"tabs", "batch"}

\* Mounting App with its EvaluationTabs; its Navbar mounts a catalog hook.
MountTabs(store) ==
    /\ page' = "tabs"
    /\ items' = useLocalStorageInit(store)
    /\ currentClaimedItem' = None
    /\ navigationItem' = None
    /\ prefillItem' = None
    /\ formData' = EmptyForm
    /\ history' = IF store.evaluationHistory.has THEN store.evaluationHistory.val ELSE << >>
    /\ isSubmitting' = FALSE
    /\ formFromItem' = FALSE
    /\ result' = None
    /\ inflight' = << >>
    /\ NoBatchForm
    /\ panelHistory' = IF store.evaluationHistory.has THEN store.evaluationHistory.val ELSE << >>
    /\ localStorage' =
          [useLocalStorageInitStore(store) EXCEPT
              !.evaluationHistory =
                  Some(IF store.evaluationHistory.has THEN store.evaluationHistory.val ELSE << >>)]

OpenTabs ==
    /\ page = "closed"
    /\ IF malformed(localStorage.evaluationHistory)
       THEN loadThrows(useLocalStorageInitStore(localStorage))
       ELSE /\ MountTabs(localStorage)
            /\ lastOp' = Op("open", Null, Undefined, "tabs")
            /\ UNCHANGED << legacyVars, now, oracleCalls >>

\* The browser opens the route /batch directly.
OpenBatch ==
    /\ page = "closed"
    /\ MountBatch(localStorage)
    /\ lastOp' = Op("open", Null, Undefined, "batch")
    /\ UNCHANGED << legacyVars, now, oracleCalls >>

\* The SingleEvaluation tab that evaluates by itself. handleFieldChange sets
\* the form and clears the result; the effect on [formData] then calls
\* runEvaluation when the four required fields are filled, and runEvaluation
\* returns at once only when a result is shown.
autoEvaluate ==
    /\ page = "tabs"
    /\ \E typed \in TypedForms :
          /\ formData' = typed
          /\ result' = None
          /\ IF missingFields(typed) # {}
             THEN /\ lastOp' = Op("runEvaluation", typed.item_title, Undefined, "incomplete")
                  /\ UNCHANGED << inflight, oracleCalls >>
             ELSE /\ oracleCalls < MaxCalls
                  /\ inflight' = Append(inflight, [request |-> typed, prefill |-> None,
                                                    fromItem |-> FALSE])
                  /\ oracleCalls' = oracleCalls + 1
                  /\ lastOp' = Op("runEvaluation", typed.item_title, Undefined, "sent")
    /\ UNCHANGED << batchVars, legacyVars, page, now, localStorage, landingVars, navigationItem,
                    prefillItem, history, isSubmitting, formFromItem >>

\* runEvaluation after its await: the oracle answered with a score.
runEvaluationResolved(score) ==
    LET call == Head(inflight)
        entry == HistoryEntry(call.request, call.prefill, score, now)
    IN  /\ result' = Some(score)
        /\ history' = addToHistory(history, entry)
        /\ localStorage' =
              [localStorage EXCEPT !.evaluationHistory = Some(addToHistory(history, entry))]
        /\ inflight' = Tail(inflight)
        /\ lastOp' = Op("runEvaluation", call.request.item_title, Undefined, "success")
        /\ UNCHANGED << batchVars, legacyVars, page, now, landingVars, navigationItem, prefillItem,
                        formData, isSubmitting, formFromItem, oracleCalls >>

RunEvaluationResolved ==
    /\ page = "tabs"
    /\ inflight # << >>
    /\ \E score \in OracleScores : runEvaluationResolved(score)

\* runEvaluation after its await: the request failed or was refused.
RunEvaluationRejected ==
    /\ page = "tabs"
    /\ inflight # << >>
    /\ inflight' = Tail(inflight)
    /\ lastOp' = Op("runEvaluation", Head(inflight).request.item_title, Undefined, "OracleError")
    /\ UNCHANGED << batchVars, legacyVars, page, now, localStorage, landingVars, navigationItem,
                    prefillItem, formData, history, isSubmitting, formFromItem, result, oracleCalls >>

\* A clear that takes the claims with it.
clearHistoryAndClaims ==
    /\ page = "tabs"
    /\ panelHistory # << >>
    /\ panelHistory' = << >>
    /\ items' = getSampleData
    /\ localStorage' = [localStorage EXCEPT !.evaluationHistory = Some(<< >>),
                                            !.searchItems = Some(getSampleData)]
    /\ lastOp' = Op("clearHistory", Null, Undefined, "cleared")
    /\ UNCHANGED << page, now, currentClaimedItem, evaluateVars, legacyVars, oracleCalls,
                    pageBatchInput, batchResults, isEvaluating, batchInflight >>

\* The trash button of the HistoryPanel, rendered while the panel's history
\* is not empty: clearHistory sets the panel's state, and its effect stores it.
clearHistory ==
    /\ page = "tabs"
    /\ panelHistory # << >>
    /\ panelHistory' = << >>
    /\ localStorage' = [localStorage EXCEPT !.evaluationHistory = Some(<< >>)]
    /\ lastOp' = Op("clearHistory", Null, Undefined, "cleared")
    /\ UNCHANGED << page, now, landingVars, evaluateVars, legacyVars, oracleCalls,
                    pageBatchInput, batchResults, isEvaluating, batchInflight >>

\* Batches a user pastes into the text area.
itemX == BatchItem(Fields(getSampleData[1]), JFlat)
itemY == BatchItem(Fields(getSampleData[2]), JAbsent)
itemZ == BatchItem(Fields(getSampleData[3]), JFlat)

PageBatchInputs(cap) ==
    { << >>,
      << itemX, itemY, itemZ >>,
      << itemX, [itemY EXCEPT !.item_category = JAbsent], itemZ >>,
      << itemX, [itemY EXCEPT !.item_title = JNum(7), !.query = JStr("")] >>,
      << itemX, [itemY EXCEPT !.item_attributes = JStr("red")] >>,
      << [itemX EXCEPT !.item_attributes = JNested], itemY >>,
      << [itemX EXCEPT !.item_attributes = JArray] >>,
      LongBatch(cap + 1) }

setBatchInput ==
    /\ page \in BatchPages
    /\ ~isEvaluating
    /\ \E data \in PageBatchInputs(batchCap) : pageBatchInput' = Some(data)
    /\ lastOp' = Op("setBatchInput", Null, Undefined, "typed")
    /\ UNCHANGED << page, now, localStorage, landingVars, evaluateVars, legacyVars,
                    oracleCalls, batchResults, isEvaluating, batchInflight, panelHistory >>

\* handleEvaluate up to its await. The button is disabled while a call is in
\* flight and while the text is blank.
handleEvaluate ==
    /\ page \in BatchPages
    /\ ~isEvaluating
    /\ pageBatchInput.has
    /\ LET validation == validateBatchInput(pageBatchInput.val)
           data == pageBatchInput.val
       IN  IF ~validation.valid
           THEN /\ lastOp' = Op("handleEvaluate", validation.field, validation.item,
                               "ValidationError")
                /\ UNCHANGED << page, now, localStorage, landingVars, evaluateVars, legacyVars,
                                oracleCalls, batchVars >>
           ELSE /\ oracleCalls < MaxCalls
                /\ batchInflight' = Append(batchInflight, Take(data, batchCap))
                /\ isEvaluating' = TRUE
                /\ oracleCalls' = oracleCalls + 1
                /\ lastOp' = Op("handleEvaluate", Null, Undefined,
                               IF Len(data) > batchCap THEN "sentWithWarning" ELSE "sent")
                /\ UNCHANGED << page, now, localStorage, landingVars, evaluateVars, legacyVars,
                                pageBatchInput, batchResults, panelHistory >>

\* The result the oracle gives for one item that was sent.
BatchResult(item, score) ==
    [query |-> item.query.str, item_title |-> item.item_title.str,
     item_description |-> item.item_description.str,
     item_category |-> item.item_category.str,
     relevance_score |-> score, reason_code |-> "R"]

\* The answers the oracle can give to a payload: one result per item, scored
\* 0..8 in one of a few patterns. The response body is whatever the service
\* returns: the results in the order of the payload, or in another order (here
\* the reverse).
OracleSeeds == {0, 4}

Reverse(seq) == [j \in 1..Len(seq) |-> seq[Len(seq) + 1 - j]]

OracleAnswers(payload) ==
    LET inOrder(seed) == [j \in 1..Len(payload) |-> BatchResult(payload[j], (seed + j) % 9)]
    IN  { inOrder(seed) : seed \in OracleSeeds } \cup { Reverse(inOrder(seed)) : seed \in OracleSeeds }

\* handleEvaluate after its await: the oracle answered.
batchEvaluateResolved(answer) ==
    /\ batchResults' = answer
    /\ batchInflight' = Tail(batchInflight)
    /\ isEvaluating' = FALSE
    /\ lastOp' = Op("evaluateBatchCall", Null, Len(answer), "success")
    /\ UNCHANGED << page, now, localStorage, landingVars, evaluateVars, legacyVars,
                    oracleCalls, pageBatchInput, panelHistory >>

BatchEvaluateResolved ==
    /\ page \in BatchPages
    /\ batchInflight # << >>
    /\ \E answer \in OracleAnswers(Head(batchInflight)) : batchEvaluateResolved(answer)

\* handleEvaluate after its await: the request failed or was refused.
BatchEvaluateRejected ==
    /\ page \in BatchPages
    /\ batchInflight # << >>
    /\ batchInflight' = Tail(batchInflight)
    /\ isEvaluating' = FALSE
    /\ lastOp' = Op("evaluateBatchCall", Null, Undefined, "OracleError")
    /\ UNCHANGED << page, now, localStorage, landingVars, evaluateVars, legacyVars,
                    oracleCalls, pageBatchInput, batchResults, panelHistory >>

\* ------------------------------------------------- stores found at start
\* A store that earlier runs have filled: the evaluation history and the
\* batch log hold n entries each, newest first, all older than Epoch.
oldHistory(n) == [k \in 1..n |-> HistoryEntry(ManualForm, None, 8, Epoch - k)]

oldBatches(n) ==
    [k \in 1..n |->
        batchRecord(<< ManualForm >>, << [relevance_score |-> 8, reason_code |-> "R"] >>,
                    Epoch - k)]

usedStorage(n) ==
    [emptyStorage EXCEPT !.evaluationHistory = Some(oldHistory(n)),
                         !.batchHistory = Some(oldBatches(n))]

\* ------------------------------------------------------------------- Next
\* The claim workflow: landing page, navigation, catalog hooks.
NextCatalog ==
    \/ Tick
    \/ OpenLanding
    \/ HandleClaim
    \/ HandleClaimNext
    \/ ContinueEvaluation
    \/ GoToEvaluation
    \/ handleBatchEvaluate
    \/ HandleReset
    \/ HandleResetData
    \/ NavbarBack
    \/ ClaimItem
    \/ UnclaimItem
    \/ resetClaims
    \/ resetDatabase

SpecCatalog == Init /\ [][NextCatalog]_vars

\* Single evaluation of claimed and of typed items.
NextEvaluate ==
    \/ OpenLanding
    \/ HandleClaim
    \/ GoToEvaluation
    \/ NavbarBack
    \/ handleFieldChange
    \/ RefreshForm
    \/ HandleClearForm
    \/ handleSubmit
    \/ EvaluateSingleResolved
    \/ EvaluateSingleRejected

SpecEvaluate == Init /\ [][NextEvaluate]_vars

\* The two logs, starting from an empty store or from one nearly full.
InitLogs ==
    /\ page = "closed"
    /\ now = Epoch
    /\ localStorage \in {emptyStorage, usedStorage(HISTORY_LIMIT - 1)}
    /\ items = << >>
    /\ currentClaimedItem = None
    /\ navigationItem = None
    /\ prefillItem = None
    /\ formData = EmptyForm
    /\ history = << >>
    /\ isSubmitting = FALSE
    /\ formFromItem = FALSE
    /\ result = None
    /\ inflight = << >>
    /\ oracleCalls = 0
    /\ evaluationHistory = << >>
    /\ batchHistory = << >>
    /\ batchInput = << >>
    /\ legacyInflight = << >>
    /\ currentBatchResults = << >>
    /\ statistics = initialStatistics
    /\ pageBatchInput = None
    /\ batchResults = << >>
    /\ isEvaluating = FALSE
    /\ batchInflight = << >>
    /\ panelHistory = << >>
    /\ lastOp = Op("none", Null, Undefined, "none")

NextLogs ==
    \/ Tick
    \/ OpenEvaluate
    \/ handleFieldChange
    \/ handleSubmit
    \/ EvaluateSingleResolved
    \/ EvaluateSingleRejected
    \/ OpenLegacy
    \/ LegacyType
    \/ LegacyTypeBatch
    \/ LegacySubmit
    \/ LegacySingleResolved
    \/ LegacySingleRejected
    \/ BatchClick
    \/ BatchResolved
    \/ BatchRejected

SpecLogs == InitLogs /\ [][NextLogs]_vars

\* The classic page alone, opened on an empty or a used store.
NextClassic ==
    \/ OpenLegacy
    \/ LegacyType
    \/ LegacyTypeBatch
    \/ LegacyTypeLongBatch
    \/ LegacySubmit
    \/ LegacySingleResolved
    \/ LegacySingleRejected
    \/ BatchClick
    \/ BatchResolved
    \/ BatchRejected
    \/ ClearEvaluationHistory

SpecClassic == InitLogs /\ [][NextClassic]_vars

\* The classic page opened on a store whose evaluation history holds up to
\* MaxStored entries of any of a few scores, newest first.
StoredScores == {0, 5, 7, 8}

ScoreLists == UNION { [1..n -> StoredScores] : n \in 0..MaxStored }

storedHistory(scores) ==
    [k \in 1..Len(scores) |-> legacyHistoryItem(ManualForm, scores[k], Epoch - k)]

InitStats ==
    /\ page = "closed"
    /\ now = Epoch
    /\ localStorage \in
          { [emptyStorage EXCEPT !.evaluationHistory = Some(storedHistory(scores))] :
                scores \in ScoreLists }
    /\ items = << >>
    /\ currentClaimedItem = None
    /\ navigationItem = None
    /\ prefillItem = None
    /\ formData = EmptyForm
    /\ history = << >>
    /\ isSubmitting = FALSE
    /\ formFromItem = FALSE
    /\ result = None
    /\ inflight = << >>
    /\ oracleCalls = 0
    /\ evaluationHistory = << >>
    /\ batchHistory = << >>
    /\ batchInput = << >>
    /\ legacyInflight = << >>
    /\ currentBatchResults = << >>
    /\ statistics = initialStatistics
    /\ pageBatchInput = None
    /\ batchResults = << >>
    /\ isEvaluating = FALSE
    /\ batchInflight = << >>
    /\ panelHistory = << >>
    /\ lastOp = Op("none", Null, Undefined, "none")

NextStats ==
    \/ OpenLegacy
    \/ LegacyType
    \/ LegacySubmit
    \/ LegacySingleResolved
    \/ LegacySingleRejected
    \/ ClearEvaluationHistory

SpecStats == InitStats /\ [][NextStats]_vars

\* Any page opened on a store each of whose three buckets is missing, holds
\* text that does not parse, or holds what an earlier run left there.
claimedCatalog == MarkClaimed(getSampleData, Nike, Epoch - 1)

StoredBuckets ==
    [searchItems : {None, Malformed, Some(claimedCatalog)},
     currentEvaluationItem : {None},
     evaluationHistory : {None, Malformed, Some(oldHistory(StoredEntries))},
     batchHistory : {None, Malformed, Some(oldBatches(StoredEntries))}]

InitStorage ==
    /\ page = "closed"
    /\ now = Epoch
    /\ localStorage \in StoredBuckets
    /\ items = << >>
    /\ currentClaimedItem = None
    /\ navigationItem = None
    /\ prefillItem = None
    /\ formData = EmptyForm
    /\ history = << >>
    /\ isSubmitting = FALSE
    /\ formFromItem = FALSE
    /\ result = None
    /\ inflight = << >>
    /\ oracleCalls = 0
    /\ evaluationHistory = << >>
    /\ batchHistory = << >>
    /\ batchInput = << >>
    /\ legacyInflight = << >>
    /\ currentBatchResults = << >>
    /\ statistics = initialStatistics
    /\ pageBatchInput = None
    /\ batchResults = << >>
    /\ isEvaluating = FALSE
    /\ batchInflight = << >>
    /\ panelHistory = << >>
    /\ lastOp = Op("none", Null, Undefined, "none")

NextStorage ==
    \/ OpenLanding
    \/ OpenEvaluate
    \/ OpenTabs
    \/ OpenBatch
    \/ OpenLegacy
    \/ autoEvaluate
    \/ RunEvaluationResolved
    \/ RunEvaluationRejected
    \/ clearHistory
    \/ LegacyType
    \/ LegacySubmit
    \/ LegacySingleResolved
    \/ LegacySingleRejected
    \/ ClearEvaluationHistory

SpecStorage == InitStorage /\ [][NextStorage]_vars

\* The forms that show an in-flight flag: the evaluation page's single form
\* and the two batch forms. A request that was sent settles, and the handler
\* that awaits it then runs on: fetch resolves or rejects, and nothing but the
\* continuation of the handler takes the request off.
NextInFlight ==
    \/ OpenEvaluate
    \/ OpenTabs
    \/ OpenBatch
    \/ handleFieldChange
    \/ handleSubmit
    \/ EvaluateSingleResolved
    \/ EvaluateSingleRejected
    \/ setBatchInput
    \/ handleEvaluate
    \/ BatchEvaluateResolved
    \/ BatchEvaluateRejected

SpecInFlight ==
    /\ Init
    /\ [][NextInFlight]_vars
    /\ WF_vars(EvaluateSingleResolved \/ EvaluateSingleRejected)
    /\ WF_vars(BatchEvaluateResolved \/ BatchEvaluateRejected)

\* The tabbed App (auto-evaluating single form, batch tab) and the batch page.
NextBatch ==
    \/ OpenTabs
    \/ OpenBatch
    \/ setBatchInput
    \/ handleEvaluate
    \/ BatchEvaluateResolved
    \/ BatchEvaluateRejected
    \/ autoEvaluate
    \/ RunEvaluationResolved
    \/ RunEvaluationRejected

SpecBatch == Init /\ [][NextBatch]_vars

\* ------------------------------------------------------------------ claims
ClaimOps == {"handleClaim", "handleClaimNext"}
ResetOps == {"handleReset", "handleResetData", "resetDatabase"}

Consistent(its) ==
    \A i \in 1..Len(its) : its[i].claimed <=> (its[i].claimed_at # Undefined)

\* C1: in every state that loads, claims, unclaims and resets lead to, every
\* item of the catalog, in the page's state and in the store, is claimed
\* exactly when its claimed_at is set.
C1_ClaimedIffClaimedAt ==
    /\ Consistent(items)
    /\ localStorage.searchItems.has => Consistent(localStorage.searchItems.val)

C1_Witness ==
    /\ lastOp.op = "handleClaimNext"
    /\ lastOp.result = "claimed"
    /\ \E i, j \in 1..Len(items) :
          /\ items[i].claimed /\ items[i].claimed_at # Undefined
          /\ ~items[j].claimed /\ items[j].claimed_at = Undefined

\* C2: whenever handleClaimNext selects an item, the item is not claimed and
\* every item before it in the catalog is claimed.
C2_ClaimNextTakesFirstAvailable ==
    [][ (page = "landing" /\ lastOp'.op = "handleClaimNext" /\ lastOp'.item # Null) =>
            /\ lastOp'.result # "continue"
            /\ \E i \in 1..Len(items) :
                  /\ items[i].item_title = lastOp'.item
                  /\ ~items[i].claimed
                  /\ \A j \in 1..(i - 1) : items[j].claimed ]_vars

C2_Witness ==
    /\ lastOp.op = "handleClaimNext"
    /\ lastOp.result = "claimed"
    /\ lastOp.item = getSampleData[2].item_title
    /\ items[1].claimed /\ items[2].claimed /\ ~items[3].claimed

\* C3: a claim of an available item while another item is active shows a
\* confirmation dialog, and when the switch is declined the catalog, the
\* active item, the store and the page are as they were.
C3_DeclinedSwitchChangesNothing ==
    [][ ( /\ page = "landing"
          /\ lastOp'.op \in ClaimOps
          /\ currentClaimedItem.has
          /\ \E i \in 1..Len(items) :
                /\ items[i].item_title = lastOp'.item
                /\ ~items[i].claimed
                /\ currentClaimedItem.val.item_title # items[i].item_title ) =>
            /\ lastOp'.asked >= 1
            /\ lastOp'.result \in {"declined", "claimed"}
            /\ lastOp'.result = "declined" =>
                  /\ items' = items
                  /\ currentClaimedItem' = currentClaimedItem
                  /\ localStorage' = localStorage
                  /\ page' = page ]_vars

C3_Witness ==
    /\ page = "landing"
    /\ lastOp.op = "handleClaim"
    /\ lastOp.result = "declined"
    /\ lastOp.asked = 1
    /\ currentClaimedItem.has
    /\ currentClaimedItem.val.item_title # lastOp.item

\* C4: a claim of an item that is already claimed leaves the catalog as it is
\* (the claimed_at of the item is not written again) and makes the item the
\* active item, through LandingPage.handleClaim and through claimItem alike.
C4_ClaimOfClaimedItemIsContinue ==
    [][ /\ ( /\ page = "landing"
             /\ lastOp'.op \in ClaimOps
             /\ \E i \in 1..Len(items) :
                   items[i].item_title = lastOp'.item /\ items[i].claimed ) =>
               /\ items' = items
               /\ localStorage'.searchItems = localStorage.searchItems
               /\ localStorage'.currentEvaluationItem.has
               /\ localStorage'.currentEvaluationItem.val.item_title = lastOp'.item
        /\ ( /\ lastOp'.op = "claimItem"
             /\ \E i \in 1..Len(items) : items[i].id = lastOp'.id
             /\ \A i \in 1..Len(items) : items[i].id = lastOp'.id => items[i].claimed ) =>
               /\ items' = items
               /\ localStorage'.searchItems = localStorage.searchItems
               /\ localStorage'.currentEvaluationItem.has
               /\ \E i \in 1..Len(items) :
                     /\ items[i].id = lastOp'.id
                     /\ localStorage'.currentEvaluationItem.val.item_title = items[i].item_title
      ]_vars

\* C5: unclaimItem called with the id of a claimed item makes that item
\* available with claimed_at cleared, leaves every other item as it was and
\* stores the new catalog.
C5_UnclaimOnlyTheItem ==
    [][ lastOp'.op = "unclaimItem" =>
            \A x \in 1..Len(items) :
                (items[x].claimed /\ items[x].id = lastOp'.id) =>
                    /\ Len(items') = Len(items)
                    /\ ~items'[x].claimed
                    /\ items'[x].claimed_at = Undefined
                    /\ \A y \in 1..Len(items) : y # x => items'[y] = items[y]
                    /\ localStorage'.searchItems = Some(items') ]_vars

NoneAvailable == \A i \in 1..Len(items) : items[i].claimed

Unchanged6 ==
    /\ items' = items
    /\ currentClaimedItem' = currentClaimedItem
    /\ localStorage' = localStorage
    /\ page' = page

C7_ResetRestoresSampleSet ==
    [][ (lastOp'.op \in ResetOps /\ lastOp'.result = "reset") =>
            /\ items' = getSampleData
            /\ localStorage'.searchItems = Some(getSampleData)
            /\ \A i \in 1..Len(items') :
                  ~items'[i].claimed /\ items'[i].claimed_at = Undefined
            /\ (lastOp.op \in ResetOps /\ lastOp.result = "reset") => items' = items ]_vars

C7_Witness ==
    /\ lastOp.op = "resetDatabase"
    /\ localStorage.currentEvaluationItem.has
    /\ items = getSampleData

\* The logs a run can see: the page's history, the script's two logs and the
\* two stored logs.
StoredLog(entry) == IF entry.has THEN entry.val ELSE << >>

NewestFirst(log) ==
    \A i \in 1..(Len(log) - 1) : log[i].timestamp >= log[i + 1].timestamp

Bounded(log) == Len(log) <= HISTORY_LIMIT /\ NewestFirst(log)

\* after is before with one entry written now put in front and, when that
\* makes more than 50, without its last entry.
Appended(before, after) ==
    /\ Len(after) = (IF Len(before) < HISTORY_LIMIT THEN Len(before) + 1 ELSE HISTORY_LIMIT)
    /\ after[1].timestamp = now
    /\ \A k \in 2..Len(after) : after[k] = before[k - 1]

AllBounded ==
    /\ Bounded(history)
    /\ Bounded(evaluationHistory)
    /\ Bounded(batchHistory)
    /\ Bounded(StoredLog(localStorage.evaluationHistory))
    /\ Bounded(StoredLog(localStorage.batchHistory))

\* C8: the history and the batch log never hold more than 50 entries and are
\* newest first, in the page and in the store; every successful evaluation
\* puts its entry in front of the others, which keep their order, and the
\* last one is dropped when there would be 51.
C8_LogsBoundedNewestFirst ==
    /\ AllBounded
    /\ [][ /\ AllBounded'
           /\ (lastOp'.op = "evaluateSingle" /\ lastOp'.result = "success") =>
                 /\ Appended(history, history')
                 /\ localStorage'.evaluationHistory = Some(history')
           /\ (lastOp'.op = "submit" /\ lastOp'.result = "success") =>
                 /\ Appended(evaluationHistory, evaluationHistory')
                 /\ localStorage'.evaluationHistory = Some(evaluationHistory')
           /\ (lastOp'.op = "evaluateBatch" /\ lastOp'.result = "success") =>
                 /\ Appended(batchHistory, batchHistory')
                 /\ localStorage'.batchHistory = Some(batchHistory') ]_vars

C8_Witness ==
    /\ lastOp.op = "evaluateSingle"
    /\ lastOp.result = "success"
    /\ Len(history) = HISTORY_LIMIT
    /\ history[2].timestamp >= Epoch
    /\ history[HISTORY_LIMIT].timestamp = Epoch - (HISTORY_LIMIT - 2)

\* C9: every successful evaluateSingle puts exactly one entry in front of the
\* history, tagged claimed_item when the form it was sent from had been filled
\* from a claimed item and manual_entry otherwise.
C9_SourceTagFollowsForm ==
    [][ (lastOp'.op = "evaluateSingle" /\ lastOp'.result = "success") =>
            /\ Len(history') = Len(history) + 1
            /\ SubSeq(history', 2, Len(history')) = history
            /\ history'[1].source =
                  (IF Head(inflight).fromItem THEN "claimed_item" ELSE "manual_entry") ]_vars

\* C10: when a request of the evaluation page, of the classic single form or
\* of the classic batch form fails, the failure is what the handler reports
\* and the history and the batch log, in the page and in the store, are as
\* they were; a request leaves the pending ones only by a success or by a
\* reported failure.
C10_FailureLeavesLogsAlone ==
    [][ /\ lastOp'.result = "OracleError" =>
              /\ history' = history
              /\ evaluationHistory' = evaluationHistory
              /\ batchHistory' = batchHistory
              /\ localStorage'.evaluationHistory = localStorage.evaluationHistory
              /\ localStorage'.batchHistory = localStorage.batchHistory
        /\ (page' = page /\ Len(inflight') + Len(legacyInflight') < Len(inflight) + Len(legacyInflight)) =>
              \/ lastOp'.result = "OracleError"
              \/ /\ lastOp'.result = "success"
                 /\ Len(history') + Len(evaluationHistory') + Len(batchHistory')
                       >= Len(history) + Len(evaluationHistory) + Len(batchHistory) ]_vars

C10_Witness ==
    /\ lastOp.op = "evaluateSingle"
    /\ lastOp.result = "OracleError"
    /\ history # << >>
    /\ inflight = << >>

SubmitOps == {"handleSubmit", "submit"}

\* C11: a single submission, from the evaluation page or from the classic
\* form, sends a request exactly when query, title, description and category
\* are all non-blank; otherwise it reports a ValidationError, sends nothing
\* and leaves the histories as they were.
C11_SingleSendsOnlyCompleteForms ==
    [][ (lastOp'.op \in SubmitOps /\ lastOp'.result \in {"sent", "ValidationError"}) =>
            /\ lastOp'.result = "sent" <=> missingFields(formData) = {}
            /\ lastOp'.result = "ValidationError" =>
                  /\ oracleCalls' = oracleCalls
                  /\ inflight' = inflight
                  /\ legacyInflight' = legacyInflight
                  /\ history' = history
                  /\ evaluationHistory' = evaluationHistory
                  /\ localStorage' = localStorage ]_vars

NotFlatMapping(v) == v.type # "undefined" /\ v # JFlat

Dispatched == {"sent", "sentWithWarning"}

\* C13: a batch in which some item's attributes is present but is not a flat
\* mapping (a string, a list, a mapping with nested values) is never sent.
C13_NonFlatAttributesNeverSent ==
    [][ (lastOp'.op = "handleEvaluate" /\ lastOp'.result \in Dispatched) =>
            \A i \in 1..Len(pageBatchInput.val) :
                ~NotFlatMapping(pageBatchInput.val[i].item_attributes) ]_vars

\* C14: when a batch call succeeds, the result kept at position i is the
\* result for the item sent at position i, in whatever order the oracle
\* returned its results.
C14_ResultsFollowInputOrder ==
    [][ (lastOp'.op = "evaluateBatchCall" /\ lastOp'.result = "success") =>
            LET sent == Head(batchInflight)
            IN  /\ Len(batchResults') = Len(sent)
                /\ \A i \in 1..Len(sent) :
                      /\ batchResults'[i].query = sent[i].query.str
                      /\ batchResults'[i].item_title = sent[i].item_title.str ]_vars

\* C15: one batch submission never sends more than the cap of items: the
\* batch forms send exactly the first cap items of the input (50 on the tab,
\* 100 on the page) and warn when the input is longer, and no batch request of
\* any entry point holds more items than the larger cap.
C15_BatchSendsAtMostCap ==
    [][ /\ (lastOp'.op = "handleEvaluate" /\ lastOp'.result \in Dispatched) =>
              LET data == pageBatchInput.val
                  sent == batchInflight'[Len(batchInflight')]
              IN  /\ Len(sent) <= batchCap
                  /\ sent = Take(data, batchCap)
                  /\ (lastOp'.result = "sentWithWarning") <=> (Len(data) > batchCap)
        /\ (lastOp'.op = "evaluateBatch" /\ lastOp'.result = "sent") =>
              \A k \in 1..Len(legacyInflight') :
                  Len(legacyInflight'[k].items) <= PAGE_BATCH_CAP ]_vars

BatchLog(store) == IF store.batchHistory.has THEN store.batchHistory.val ELSE << >>

\* The batch log gained one record, for a batch of n items answered by results.
OneRecordAppended(before, after, n, results) ==
    /\ after # << >>
    /\ after = Take(<< after[1] >> \o before, HISTORY_LIMIT)
    /\ after[1].totalItems = n
    /\ Len(after[1].results) = Len(results)
    /\ \A j \in 1..Len(results) : after[1].results[j].reason = results[j].reason_code

\* C16: each successful batch evaluation appends exactly one record to the
\* stored batch log, with totalItems the number of items submitted and one
\* {score, reason code} pair per result in result order, and appends nothing
\* to the evaluation history.
C16_OneBatchRecordPerBatch ==
    [][ (lastOp'.op = "evaluateBatchCall" /\ lastOp'.result = "success") =>
            /\ OneRecordAppended(BatchLog(localStorage), BatchLog(localStorage'),
                                 Len(Head(batchInflight)), batchResults')
            /\ history' = history
            /\ evaluationHistory' = evaluationHistory
            /\ localStorage'.evaluationHistory = localStorage.evaluationHistory ]_vars

RECURSIVE sumStoredRange(_, _, _)
sumStoredRange(pairs, lo, hi) ==
    IF lo > hi THEN 0
    ELSE IF lo = hi THEN pairs[lo].score
    ELSE sumStoredRange(pairs, lo, (lo + hi) \div 2)
             + sumStoredRange(pairs, (lo + hi) \div 2 + 1, hi)

sumStored(pairs, n) == sumStoredRange(pairs, 1, n)

\* The mean of the stored scores, rounded to tenths.
meanStored(pairs) ==
    IF Len(pairs) = 0 THEN 0 ELSE ((sumStored(pairs, Len(pairs)) * 100) \div Len(pairs) + 5) \div 10

\* C17: the score a batch record stores for a result is the score the oracle
\* returned for it, and the record's averageScore is the mean of the stored
\* scores.
C17_StoredScoreIsOracleScore ==
    [][ (lastOp'.op = "evaluateBatch" /\ lastOp'.result = "success") =>
            LET record == batchHistory'[1]
            IN  /\ Len(record.results) = Len(currentBatchResults')
                /\ \A j \in 1..Len(record.results) :
                      record.results[j].score = currentBatchResults'[j].relevance_score
                /\ record.averageScore = meanStored(record.results) ]_vars

\* The handlers a user's submission runs.
SubmissionOps == {"handleSubmit", "runEvaluation", "submit", "evaluateBatch", "handleEvaluate"}

\* C18: a user's submission, single or batch, causes at most one request to
\* the oracle, and no request is sent except by a submission: nothing is sent
\* again when a request is answered or fails.
C18_OneRequestPerSubmission ==
    [][ /\ oracleCalls' <= oracleCalls + 1
        /\ oracleCalls' # oracleCalls =>
              (lastOp'.op \in SubmissionOps /\ lastOp'.result \in Dispatched) ]_vars

\* C19: at most one request of each entry point (single form, batch form,
\* classic single form, classic batch button) is in flight at any time.
C19_OneRequestInFlight ==
    /\ Len(inflight) <= 1
    /\ Len(batchInflight) <= 1
    /\ Cardinality(Pending("single")) <= 1
    /\ Cardinality(Pending("batch")) <= 1

\* C20: on the classic page the statistics shown agree with the history: the
\* total is the number of entries and the counts are those of the entries
\* now in the history, after an append, an eviction and a clear.
C20_StatisticsAgreeWithHistory ==
    page = "legacy" =>
        /\ statistics.total = Len(evaluationHistory)
        /\ statistics.excellent =
              Cardinality({ k \in 1..Len(evaluationHistory) : evaluationHistory[k].score = 8 })

\* The handlers of the classic page that end with a recompute of the statistics.
Recomputed ==
    /\ page = "legacy"
    /\ \/ lastOp.op = "open"
       \/ lastOp.op = "submit" /\ lastOp.result = "success"

RECURSIVE sumCounts(_, _)
sumCounts(counts, score) ==
    IF score < 0 THEN 0 ELSE counts[score] + sumCounts(counts, score - 1)

inBand(h, band) == Cardinality({ k \in 1..Len(h) : h[k].score \in band })

scoresOf(h) == [k \in 1..Len(h) |-> h[k].score]

C22_TrendIsFirstDifference ==
    page = "legacy" =>
        /\ statistics.totalTrend = statistics.total - statistics.before.total
        /\ statistics.averageTrend = statistics.average - statistics.before.average
        /\ statistics.previousStats.total = statistics.total
        /\ statistics.previousStats.average = statistics.average
        /\ statistics.previousStats.excellent = statistics.counts[8]
        /\ statistics.previousStats.good = statistics.counts[7]

\* A fourth evaluation was added and the statistics recomputed against the
\* snapshot of the recompute before.
C22_Witness ==
    /\ Recomputed
    /\ lastOp.op = "submit"
    /\ statistics.total = MaxStored + 1
    /\ statistics.before.total = MaxStored + 1
    /\ statistics.previousStats.total = MaxStored + 1
    /\ statistics.average > 0

\* C30: the statistics are recomputed once per appended evaluation: after a
\* successful single evaluation on the classic page the total trend is the
\* total after minus the total before that evaluation (+1 below the cap) and
\* the mean trend the mean after minus the mean before.
C30_TrendIsDifferenceAcrossEvaluation ==
    [][(page = "legacy" /\ lastOp'.op = "submit" /\ lastOp'.result = "success") =>
          /\ statistics'.totalTrend = statistics'.total - statistics.total
          /\ statistics'.averageTrend = statistics'.average - statistics.average
          /\ Len(evaluationHistory) < HISTORY_LIMIT => statistics'.totalTrend = 1]_vars

absent(entry) == ~entry.has \/ malformed(entry)

\* C24: loading the catalog, the evaluation history or the batch log from an
\* entry that is missing or does not parse gives the default value (the empty
\* log; for the catalog the sample set or the hook's initial value) and never
\* raises an error out of the load.
C24_LoadAbsorbsBadEntries ==
    [][lastOp'.op = "open" =>
          /\ lastOp'.result # "SyntaxError"
          /\ page' # "crashed"
          /\ (page' \in {"evaluate", "tabs"} /\ absent(localStorage.evaluationHistory))
                => history' = << >>
          /\ (page' = "legacy" /\ absent(localStorage.evaluationHistory))
                => evaluationHistory' = << >>
          /\ (page' = "legacy" /\ absent(localStorage.batchHistory))
                => batchHistory' = << >>
          /\ (page' \in {"landing", "evaluate", "tabs", "batch"} /\ absent(localStorage.searchItems))
                => items' \in {getSampleData, << >>}]_vars

CatalogMutated ==
    \/ lastOp.op \in {"claimItem", "unclaimItem"}
    \/ lastOp.op = "handleClaimNext" /\ lastOp.result = "claimed"
    \/ lastOp.op \in {"handleReset", "handleResetData", "resetClaims", "resetDatabase"}
          /\ lastOp.result = "reset"

HistoryMutated ==
    \/ lastOp.op \in {"runEvaluation", "evaluateSingle", "submit"} /\ lastOp.result = "success"
    \/ lastOp.op \in {"clearHistory", "clearEvaluationHistory"} /\ lastOp.result = "cleared"

\* C25: when a mutation of the catalog, of the evaluation history or of the
\* batch log has completed, the value stored under the bucket's key equals
\* the value every mounted component (or the script) holds and shows for it.
C25_StoredEqualsInMemory ==
    /\ (CatalogMutated /\ page \in {"landing", "evaluate", "batch", "tabs"})
          => localStorage.searchItems = Some(items)
    /\ (HistoryMutated /\ page = "evaluate") => localStorage.evaluationHistory = Some(history)
    /\ (HistoryMutated /\ page = "tabs")
          => /\ localStorage.evaluationHistory = Some(history)
             /\ localStorage.evaluationHistory = Some(panelHistory)
    /\ (HistoryMutated /\ page = "legacy")
          => localStorage.evaluationHistory = Some(evaluationHistory)
    /\ (lastOp.op = "evaluateBatch" /\ lastOp.result = "success")
          => localStorage.batchHistory = Some(batchHistory)

ReactPages == {"landing", "evaluate", "batch", "tabs"}

\* C26: loading the catalog when none is stored gives the sample set with
\* every item available, and the store holds that same catalog once the load
\* has returned; loading when a catalog is stored gives the stored catalog,
\* claims included, and leaves the store's catalog as it is.
C26_LoadSeedsOrKeeps ==
    [][(lastOp'.op = "open" /\ page' \in ReactPages) =>
          /\ ~localStorage.searchItems.has =>
                /\ items' = getSampleData
                /\ \A i \in 1..Len(items') : ~items'[i].claimed /\ items'[i].claimed_at = Undefined
                /\ localStorage'.searchItems = Some(items')
          /\ (localStorage.searchItems.has /\ ~malformed(localStorage.searchItems)) =>
                /\ items' = localStorage.searchItems.val
                /\ localStorage'.searchItems = localStorage.searchItems]_vars

\* The landing page has loaded from a store without a catalog.
C26_Witness ==
    /\ lastOp.op = "open"
    /\ page = "landing"
    /\ items = getSampleData
    /\ localStorage.searchItems = Some(getSampleData)

claimedIn(catalog, active) ==
    \E i \in 1..Len(catalog) :
        catalog[i].item_title = active.item_title /\ catalog[i].claimed

\* C27: whenever an active item is recorded (the stored currentEvaluationItem,
\* the landing page's currentClaimedItem), the catalog item it refers to is
\* claimed, in the store and in the mounted catalog.
C27_ActiveItemIsClaimed ==
    /\ (localStorage.currentEvaluationItem.has /\ localStorage.searchItems.has)
          => claimedIn(localStorage.searchItems.val, localStorage.currentEvaluationItem.val)
    /\ (page = "landing" /\ currentClaimedItem.has) => claimedIn(items, currentClaimedItem.val)

changed(old, new) == { j \in 1..Len(old) : new[j] # old[j] }

onlyClaimed(old, new, i) ==
    /\ Len(new) = Len(old)
    /\ changed(old, new) = {i}
    /\ new[i] = [old[i] EXCEPT !.claimed = TRUE, !.claimed_at = new[i].claimed_at]

\* The landing page's claim of an available item changes that item alone.
handleClaimChangesOne ==
    (lastOp'.op \in {"handleClaim", "handleClaimNext"} /\ lastOp'.result = "claimed") =>
        \E i \in 1..Len(items) :
            /\ items[i].item_title = lastOp'.item
            /\ ~items[i].claimed
            /\ onlyClaimed(items, items', i)

\* claimItem(x.id) for an available item x changes x alone.
claimItemChangesOne ==
    lastOp'.op = "claimItem" =>
        \A i \in 1..Len(items) :
            (items[i].id = lastOp'.id /\ ~items[i].claimed) => onlyClaimed(items, items', i)

\* C28: a claim of an available item x changes exactly one catalog item: x
\* becomes claimed, every other item keeps its fields, and the catalog keeps
\* its length and its order; no claimed item becomes available. This for the
\* landing page's handleClaim and for claimItem(x.id) of the catalog hook.
C28_ClaimChangesOneItem == [][handleClaimChangesOne /\ claimItemChangesOne]_vars

\* A submission that validation turned away, or whose call has returned.
Completed ==
    \/ lastOp'.op \in {"handleSubmit", "handleEvaluate"} /\ lastOp'.result = "ValidationError"
    \/ lastOp'.op \in {"evaluateSingle", "evaluateBatchCall"}

\* C29: a single or batch evaluation that sets its in-flight flag clears it
\* again: the flag is set only while a call is out, every step in which the
\* call returns (answer or failure) or validation rejects the submission ends
\* with the flag clear and the button enabled, and a set flag is always
\* cleared eventually.
C29_FlagClearedWhenCallReturns ==
    /\ [](isSubmitting => inflight # << >>)
    /\ [](isEvaluating => batchInflight # << >>)
    /\ [][Completed => (~isSubmitting' /\ ~isEvaluating')]_vars
    /\ (isSubmitting ~> ~isSubmitting)
    /\ (isEvaluating ~> ~isEvaluating)

\* The single form was submitting and the oracle call failed.
C29_Witness ==
    /\ lastOp.op = "evaluateSingle"
    /\ lastOp.result = "OracleError"
    /\ page = "evaluate"
    /\ ~isSubmitting
    /\ inflight = << >>

====
